---- MODULE Spec2Model ----
(***************************************************************************)
(* Model of gdrive-sync (src/sync.py): the Tree Builder (get_tree), the    *)
(* Name Resolver (TreeNode.make_local_file_info), the Retrying Fetcher     *)
(* (Syncer.download_file under tenacity.retry) and the Reconciler          *)
(* (Syncer.sync_folder / sync_file / delete_removed_files).                *)
(*                                                                         *)
(* Strings that the program compares, sorts or concatenates (titles, file  *)
(* names) are sequences of character codes, so that Python's str order and *)
(* str concatenation are the sequence order and \o.  A local path is the   *)
(* sequence of its components from the filesystem root, which is << >>.    *)
(***************************************************************************)
EXTENDS Integers, Sequences, FiniteSets, TLC

VARIABLES
    listing,         \* get_all_remote_objs(): the flat list of RemoteObj
    pos,             \* get_tree: index of the next object of the for loop
    tree,            \* Syncer.tree: folder id -> TreeNode (a defaultdict)
    stats,           \* Syncer.stats
    root_folder_id,  \* Syncer.root_folder_id (<< >> is None)
    archive,         \* Syncer.archive
    fs,              \* the local filesystem under base_dir: path -> entry
    path,            \* the list `path` shared by all sync_folder calls
    stack,           \* the active sync_folder calls, innermost last
    tries,           \* outcomes of the attempts of the current download_file call
    err,             \* the exception that left sync() ("" while there is none)
    phase,           \* where main() is
    run,             \* number of the current run of main()
    fetched,         \* ghost: ids of the files fetched during this run
    pruned,          \* ghost: paths removed by delete_removed_files during this run
    local0,          \* ghost: the local tree as it was before the first run
    visits           \* ghost: the sync_folder and sync_file calls of this run

vars == <<listing, pos, tree, stats, root_folder_id, archive, fs, path, stack,
          tries, err, phase, run, fetched, pruned, local0, visits>>

---------------------------------------------------------------------------
(* Bounds of the model *)

\* number of remote objects of a listing given to the Tree Builder alone
MaxListing == 3
\* number of files of the folder given to the Name Resolver alone
MaxFiles == 3
\* number of remote objects of a listing that is reconciled
MaxObjs == 3
\* number of remote objects of a reconciled listing whose folder titles are paths
MaxPathObjs == 2

---------------------------------------------------------------------------
(* Strings *)

\* "a", "b", "o"
Str_a == <<97>>
Str_b == <<98>>
Str_o == <<111>>
\* "a/b", "a_b", "a (1)", "a.zip"
Str_a_slash_b == <<97, 47, 98>>
Str_a_under_b == <<97, 95, 98>>
Str_a_1 == <<97, 32, 40, 49, 41>>
Str_a_zip == <<97, 46, 122, 105, 112>>
\* " (1)"
SUFFIX == <<32, 40, 49, 41>>
\* ".zip"
ZIP_EXT == <<46, 122, 105, 112>>
\* "xlsx", "docx", "pptx", "svg"
Str_xlsx == <<120, 108, 115, 120>>
Str_docx == <<100, 111, 99, 120>>
Str_pptx == <<112, 112, 116, 120>>
Str_svg == <<115, 118, 103>>

\* Python's str.__lt__: lexicographic on code points, a proper prefix is smaller
RECURSIVE StrLess(_, _)
StrLess(s, t) ==
    IF t = << >> THEN FALSE
    ELSE IF s = << >> THEN TRUE
    ELSE IF Head(s) # Head(t) THEN Head(s) < Head(t)
    ELSE StrLess(Tail(s), Tail(t))

\* str.replace("/", "_")
ReplaceSlash(s) == [i \in 1..Len(s) |-> IF s[i] = 47 THEN 95 ELSE s[i]]

---------------------------------------------------------------------------
(* Remote Object Model *)

FOLDER_MIME == "application/vnd.google-apps.folder"
PLAIN_MIME == "text/plain"
SHEET_MIME == "application/vnd.google-apps.spreadsheet"
DOC_MIME == "application/vnd.google-apps.document"
SLIDES_MIME == "application/vnd.google-apps.presentation"
DRAWING_MIME == "application/vnd.google-apps.drawing"

\* MIMETYPES.get(mime_type, (None, None)); None is "" / << >>
MIMETYPES(mime_type) ==
    CASE mime_type = SHEET_MIME ->
           <<"application/vnd.openxmlformats-officedocument.spreadsheetml.sheet", Str_xlsx>>
      [] mime_type = DOC_MIME ->
           <<"application/vnd.openxmlformats-officedocument.wordprocessingml.document", Str_docx>>
      [] mime_type = SLIDES_MIME ->
           <<"application/vnd.openxmlformats-officedocument.presentationml.presentation", Str_pptx>>
      [] mime_type = DRAWING_MIME -> <<"image/svg+xml", Str_svg>>
      [] OTHER -> <<"", << >> >>

\* the id of the synchronization root (never the id of a listed object here)
RootId == 0

\* RemoteParentFolder
RemoteParentFolder(id) == [id |-> id, is_root |-> (id = RootId)]

\* RemoteObj; local_info is << >> (None) until make_local_file_info sets it,
\* file_size is << >> (None) or <<n>>
RemoteObj(id, title, mime_type, file_size, modified_date, parents) ==
    [id |-> id, title |-> title, mime_type |-> mime_type, file_size |-> file_size,
     modified_date |-> modified_date, parents |-> parents, local_info |-> << >>]

\* LocalInfo; archive_file_name is << >> (None) when archiving is off
LocalInfo(dir_path, mime_type, file_name, archive_file_name) ==
    [dir_path |-> dir_path, mime_type |-> mime_type, file_name |-> file_name,
     archive_file_name |-> archive_file_name]

\* TreeNode()
TreeNode == [title |-> << >>, folders |-> << >>, files |-> << >>]

\* Stats()
Stats0 ==
    [total_file_count |-> 0, total_folder_count |-> 0, total_file_size |-> 0,
     synced_file_count |-> 0, synced_file_size |-> 0, skipped_file_count |-> 0,
     deleted_file_count |-> 0, deleted_file_size |-> 0]

\* no sync_folder call entered and no file handed to sync_file yet: the folder ids
\* and the file ids in call order
NoVisits == [folders |-> << >>, files |-> << >>]

---------------------------------------------------------------------------
(* Name Resolver *)

\* the collision check made once instead of in a loop
SanitizeOnce(file_name, dst_ext, file_names_seen) ==
    IF (file_name \o dst_ext) \notin file_names_seen
    THEN file_name \o dst_ext
    ELSE file_name \o SUFFIX \o dst_ext

\* the loop with " (1)" put after the extension instead of before it
RECURSIVE SanitizeLoopSuffixLast(_, _, _)
SanitizeLoopSuffixLast(file_name, dst_ext, file_names_seen) ==
    IF (file_name \o dst_ext) \notin file_names_seen
    THEN file_name \o dst_ext
    ELSE SanitizeLoopSuffixLast(file_name, dst_ext \o SUFFIX, file_names_seen)

\* TreeNode._sanitize_file_name: the while loop, entered with file_name already
\* sanitized and dst_ext already dotted
RECURSIVE SanitizeLoop(_, _, _)
SanitizeLoop(file_name, dst_ext, file_names_seen) ==
    IF (file_name \o dst_ext) \notin file_names_seen
    THEN file_name \o dst_ext
    ELSE SanitizeLoop(file_name \o SUFFIX, dst_ext, file_names_seen)

\* the extension of _sanitize_file_name (line 126)
DottedExt(dst_ext) == IF dst_ext # << >> THEN <<46>> \o dst_ext ELSE << >>

\* the name resolved from the title as it is, without the replacement of line 125
SanitizeFileNameKeepSlash(file_name, dst_ext, file_names_seen) ==
    SanitizeLoop(file_name, DottedExt(dst_ext), file_names_seen)

\* TreeNode._sanitize_file_name
SanitizeFileName(file_name, dst_ext, file_names_seen) ==
    SanitizeLoop(ReplaceSlash(file_name), DottedExt(dst_ext), file_names_seen)

\* the sort key without the id: (title, modified_date)
KeyLessNoId(a, b) ==
    \/ StrLess(a.title, b.title)
    \/ a.title = b.title /\ a.modified_date < b.modified_date

\* the sort key of make_local_file_info compared with <: (title, modified_date, id)
KeyLess(a, b) ==
    \/ StrLess(a.title, b.title)
    \/ a.title = b.title /\ a.modified_date < b.modified_date
    \/ a.title = b.title /\ a.modified_date = b.modified_date /\ a.id < b.id

\* list.sort(key=...): a stable sort; x goes after the elements not greater than it
RECURSIVE InsertSorted(_, _)
InsertSorted(x, s) ==
    IF s = << >> THEN <<x>>
    ELSE IF KeyLess(x, Head(s)) THEN <<x>> \o s
    ELSE <<Head(s)>> \o InsertSorted(x, Tail(s))

RECURSIVE SortFiles(_)
SortFiles(files) ==
    IF files = << >> THEN << >>
    ELSE InsertSorted(files[Len(files)], SortFiles(SubSeq(files, 1, Len(files) - 1)))

\* the for loop of make_local_file_info over the sorted list, from index i on
RECURSIVE AssignNames(_, _, _, _, _)
AssignNames(files, i, file_names_seen, dir_path, arch) ==
    IF i > Len(files) THEN files
    ELSE LET obj == files[i]
             dst == MIMETYPES(obj.mime_type)
             file_name == SanitizeFileName(obj.title, dst[2], file_names_seen)
             archive_file_name == IF arch THEN file_name \o ZIP_EXT ELSE << >>
             info == LocalInfo(dir_path, dst[1], file_name, archive_file_name)
         IN AssignNames([files EXCEPT ![i].local_info = <<info>>], i + 1,
                        file_names_seen \cup {file_name}, dir_path, arch)

\* TreeNode.make_local_file_info: the node's file list afterwards
MakeLocalFileInfo(files, dir_path, arch) ==
    AssignNames(SortFiles(files), 1, {}, dir_path, arch)

---------------------------------------------------------------------------
(* Tree Builder *)

\* tree[k] of a collections.defaultdict(TreeNode): the node, made on first reference
NodeOf(t, k) == IF k \in DOMAIN t THEN t[k] ELSE TreeNode

\* the defaultdict after tree[k] was referenced and its node set to n
PutNode(t, k, n) == [x \in DOMAIN t \cup {k} |-> IF x = k THEN n ELSE t[x]]

\* obj.file_size or 0
SizeOrZero(obj) == IF obj.file_size = << >> THEN 0 ELSE obj.file_size[1]

\* a folder object appended to its parent's folder list twice
AddFolderTwice(b, obj, parent) ==
    LET t1 == PutNode(b.tree, parent.id,
                      [NodeOf(b.tree, parent.id) EXCEPT
                          !.folders = Append(Append(@, obj.id), obj.id)])
        t2 == PutNode(t1, obj.id, [NodeOf(t1, obj.id) EXCEPT !.title = obj.title])
    IN [b EXCEPT !.tree = t2,
                 !.stats.total_folder_count = @ + 1]

\* a folder object whose node is made anew when the object is met
AddFolderReplaceNode(b, obj, parent) ==
    LET t1 == PutNode(b.tree, parent.id,
                      [NodeOf(b.tree, parent.id) EXCEPT !.folders = Append(@, obj.id)])
        t2 == PutNode(t1, obj.id, [TreeNode EXCEPT !.title = obj.title])
    IN [b EXCEPT !.tree = t2,
                 !.stats.total_folder_count = @ + 1]

\* the bookkeeping of a folder object (lines 316-318)
AddFolder(b, obj, parent) ==
    LET t1 == PutNode(b.tree, parent.id,
                      [NodeOf(b.tree, parent.id) EXCEPT !.folders = Append(@, obj.id)])
        t2 == PutNode(t1, obj.id, [NodeOf(t1, obj.id) EXCEPT !.title = obj.title])
    IN [b EXCEPT !.tree = t2,
                 !.stats.total_folder_count = @ + 1]

\* the bookkeeping of a non-folder object (lines 320-322)
AddFile(b, obj, parent) ==
    [b EXCEPT !.tree = PutNode(b.tree, parent.id,
                               [NodeOf(b.tree, parent.id) EXCEPT !.files = Append(@, obj)]),
              !.stats.total_file_count = @ + 1,
              !.stats.total_file_size = @ + SizeOrZero(obj)]

\* the parent check of get_tree (lines 309-310)
IsOrphan(obj) == Len(obj.parents) = 0

\* the loop body with the statistics taken before the parent check
TreeStepCountOrphans(b, obj) ==
    IF b.err # "" THEN b
    ELSE IF IsOrphan(obj)
    THEN IF obj.mime_type = FOLDER_MIME
         THEN [b EXCEPT !.stats.total_folder_count = @ + 1]
         ELSE [b EXCEPT !.stats.total_file_count = @ + 1,
                        !.stats.total_file_size = @ + SizeOrZero(obj)]
    ELSE IF Len(obj.parents) # 1 THEN [b EXCEPT !.err = "AssertionError"]
    ELSE LET parent == obj.parents[1]
             b1 == IF parent.is_root
                   THEN [b EXCEPT !.root_folder_id = <<parent.id>>]
                   ELSE b
         IN IF obj.mime_type = FOLDER_MIME
            THEN AddFolder(b1, obj, parent)
            ELSE AddFile(b1, obj, parent)

\* one iteration of the for loop of get_tree (lines 308-322) on the builder state
\* b = [tree, stats, root_folder_id, err]
TreeStep(b, obj) ==
    IF b.err # "" THEN b
    ELSE IF IsOrphan(obj) THEN b
    ELSE IF Len(obj.parents) # 1 THEN [b EXCEPT !.err = "AssertionError"]
    ELSE LET parent == obj.parents[1]
             b1 == IF parent.is_root
                   THEN [b EXCEPT !.root_folder_id = <<parent.id>>]
                   ELSE b
         IN IF obj.mime_type = FOLDER_MIME
            THEN AddFolder(b1, obj, parent)
            ELSE AddFile(b1, obj, parent)

\* the state of get_tree before its loop (lines 304-307)
Builder0 == [tree |-> << >>, stats |-> Stats0, root_folder_id |-> << >>, err |-> ""]

\* get_tree: the whole loop over all_objs
RECURSIVE GetTree(_)
GetTree(all_objs) ==
    IF all_objs = << >> THEN Builder0
    ELSE TreeStep(GetTree(SubSeq(all_objs, 1, Len(all_objs) - 1)),
                  all_objs[Len(all_objs)])

---------------------------------------------------------------------------
(* Inputs *)

\* the orderings of the sequence s
Orderings(s) ==
    {[i \in 1..Len(s) |-> s[f[i]]] : f \in Permutations(1..Len(s))}

\* what the provider may list for the Tree Builder: folders and files, a file with
\* or without a size, as <<title, mime_type, file_size>>
TreeKinds ==
    {<<Str_a, FOLDER_MIME, << >> >>, <<Str_b, FOLDER_MIME, << >> >>,
     <<Str_a, PLAIN_MIME, << >> >>, <<Str_a, PLAIN_MIME, <<2>> >>}

\* the parents of an object of a listing of n objects: none (-1, an orphan), the
\* root or any listed id
TreeParents(n) == -1..n

\* obj.parents for the choice q
ParentsOf(q) == IF q = -1 THEN << >> ELSE <<RemoteParentFolder(q)>>

\* the files a folder may hold for the Name Resolver: titles that collide as they
\* are ("a"), after sanitizing ("a/b", "a_b") or with a suffixed name ("a (1)"),
\* with and without a conversion extension, at two timestamps
NameFilesAt(i) ==
    {RemoteObj(i, k[1], k[2], << >>, d, <<RemoteParentFolder(RootId)>>) :
        k \in {<<Str_a, PLAIN_MIME>>, <<Str_a_1, PLAIN_MIME>>,
               <<Str_a_slash_b, PLAIN_MIME>>, <<Str_a_under_b, PLAIN_MIME>>,
               <<Str_a, SHEET_MIME>>},
        d \in {1, 2}}

RECURSIVE NameFileListsOf(_)
NameFileListsOf(k) ==
    IF k = 0 THEN {<< >>}
    ELSE {Append(l, o) : l \in NameFileListsOf(k - 1), o \in NameFilesAt(k)}

NameFileLists == UNION {NameFileListsOf(n) : n \in 1..MaxFiles}

---------------------------------------------------------------------------
(* The Tree Builder alone: get_tree run object by object on any listing *)

InitTree ==
    /\ \E n \in 1..MaxListing :
         \E kinds \in [1..n -> TreeKinds], ps \in [1..n -> TreeParents(n)] :
            /\ \A i \in 1..n : ps[i] # i
            /\ listing = [i \in 1..n |->
                            RemoteObj(i, kinds[i][1], kinds[i][2], kinds[i][3], 1,
                                      ParentsOf(ps[i]))]
    /\ pos = 1
    /\ tree = << >>
    /\ stats = Stats0
    /\ root_folder_id = << >>
    /\ err = ""
    /\ phase = "get_tree"
    /\ archive = FALSE
    /\ fs = << >>
    /\ path = << >>
    /\ stack = << >>
    /\ tries = << >>
    /\ run = 0
    /\ fetched = {}
    /\ pruned = {}
    /\ local0 = << >>
    /\ visits = NoVisits

\* one iteration of `for obj in all_objs` (lines 308-322)
GetTreeStep ==
    /\ phase = "get_tree"
    /\ pos <= Len(listing)
    /\ LET b == TreeStep([tree |-> tree, stats |-> stats,
                          root_folder_id |-> root_folder_id, err |-> err],
                         listing[pos])
       IN /\ tree' = b.tree
          /\ stats' = b.stats
          /\ root_folder_id' = b.root_folder_id
          /\ err' = b.err
    /\ pos' = pos + 1
    /\ UNCHANGED <<listing, archive, fs, path, stack, tries, phase, run, fetched,
                   pruned, local0, visits>>

NextTree == GetTreeStep

SpecTree == InitTree /\ [][NextTree]_vars

---------------------------------------------------------------------------
(* The Name Resolver alone: make_local_file_info on any file list of a folder *)

InitNames ==
    /\ listing \in NameFileLists
    /\ pos = 1
    /\ tree = [k \in {RootId} |-> [TreeNode EXCEPT !.files = listing]]
    /\ stats = Stats0
    /\ root_folder_id = <<RootId>>
    /\ err = ""
    /\ phase = "resolve"
    /\ archive \in BOOLEAN
    /\ fs = << >>
    /\ path = << >>
    /\ stack = << >>
    /\ tries = << >>
    /\ run = 0
    /\ fetched = {}
    /\ pruned = {}
    /\ local0 = << >>
    /\ visits = NoVisits

\* node.make_local_file_info(dir_path, archive) on the folder's files, which the
\* Tree Builder left in the order the provider listed them: any order
ResolveNames ==
    /\ phase = "resolve"
    /\ \E files \in Orderings(tree[RootId].files) :
          tree' = [tree EXCEPT ![RootId].files = MakeLocalFileInfo(files, << >>, archive)]
    /\ phase' = "resolved"
    /\ UNCHANGED <<listing, pos, stats, root_folder_id, archive, fs, path, stack,
                   tries, err, run, fetched, pruned, local0, visits>>

NextNames == ResolveNames

SpecNames == InitNames /\ [][NextNames]_vars

---------------------------------------------------------------------------
(* The local filesystem *)

\* st_mtime of an entry the run has just created and not yet re-timestamped: the
\* time of the run, which is no remote modification timestamp
NowTime == 0

\* a directory entry, a file entry holding the content of remote object src
\* (-1: content that is not of this listing)
DirEntry == [kind |-> "dir", mtime |-> NowTime, src |-> -1, size |-> 0]
FileEntry(mtime, src, size) == [kind |-> "file", mtime |-> mtime, src |-> src, size |-> size]

\* Syncer.base_dir: an absolute directory two levels below the filesystem root,
\* which no title spells out
Str_h == <<104>>
Str_g == <<103>>
BaseDir == <<Str_h, Str_g>>

Str_dot == <<46>>
Str_dotdot == <<46, 46>>
Str_slash_a == <<47, 97>>

\* pathlib: the components of a segment, split at "/"; empty components and "."
\* are dropped, ".." is kept
FirstSlash(t) ==
    IF \E i \in 1..Len(t) : t[i] = 47
    THEN CHOOSE i \in 1..Len(t) : t[i] = 47 /\ \A j \in 1..(i - 1) : t[j] # 47
    ELSE Len(t) + 1

RECURSIVE Components(_)
Components(t) ==
    IF t = << >> THEN << >>
    ELSE LET i == FirstSlash(t)
             head == SubSeq(t, 1, i - 1)
         IN (IF head \in {<< >>, Str_dot} THEN << >> ELSE <<head>>)
                \o Components(SubSeq(t, i + 1, Len(t)))

\* the directory the operating system reaches from directory p through the
\* components: ".." leads to the parent (at the root, to the root), there being no
\* symbolic links
RECURSIVE Resolve(_, _)
Resolve(p, components) ==
    IF components = << >> THEN p
    ELSE IF Head(components) = Str_dotdot
         THEN Resolve(SubSeq(p, 1, Len(p) - 1), Tail(components))
         ELSE Resolve(Append(p, Head(components)), Tail(components))

\* pathlib: joinpath onto p; a segment that starts with "/" is absolute and
\* replaces what was joined before it
RECURSIVE JoinFrom(_, _)
JoinFrom(p, segments) ==
    IF segments = << >> THEN p
    ELSE LET seg == Head(segments)
             from == IF seg # << >> /\ seg[1] = 47 THEN << >> ELSE p
         IN JoinFrom(Resolve(from, Components(seg)), Tail(segments))

\* base_dir.joinpath(*path) as the operating system resolves it; an empty segment
\* (the title of a node that was never listed, such as the root) adds nothing
JoinPath(segments) == JoinFrom(BaseDir, segments)

\* the filesystem that holds base_dir with the tree t below it (t given by paths
\* relative to base_dir)
UnderBase(t) ==
    [p \in {SubSeq(BaseDir, 1, i) : i \in 1..Len(BaseDir)}
              \cup {BaseDir \o q : q \in DOMAIN t} |->
        IF Len(p) <= Len(BaseDir) THEN DirEntry
        ELSE t[SubSeq(p, Len(BaseDir) + 1, Len(p))]]

PathExists(f, p) == p = << >> \/ p \in DOMAIN f
PathIsDir(f, p) == p = << >> \/ (p \in DOMAIN f /\ f[p].kind = "dir")
ParentPath(p) == SubSeq(p, 1, Len(p) - 1)

\* Path.iterdir(): the entries directly in directory d
DirEntries(f, d) == {p \in DOMAIN f : Len(p) = Len(d) + 1 /\ SubSeq(p, 1, Len(d)) = d}

\* p and everything below it
Subtree(f, p) == {q \in DOMAIN f : Len(q) >= Len(p) /\ SubSeq(q, 1, Len(p)) = p}

WriteEntry(f, p, e) == [q \in DOMAIN f \cup {p} |-> IF q = p THEN e ELSE f[q]]
RemovePaths(f, S) == [q \in DOMAIN f \ S |-> f[q]]

\* Path.mkdir(exist_ok=True): the filesystem afterwards and the exception raised
Mkdir(f, p) ==
    IF PathIsDir(f, p) THEN [fs |-> f, err |-> ""]
    ELSE IF PathExists(f, p) THEN [fs |-> f, err |-> "FileExistsError"]
    ELSE IF ~PathIsDir(f, ParentPath(p)) THEN [fs |-> f, err |-> "FileNotFoundError"]
    ELSE [fs |-> WriteEntry(f, p, DirEntry), err |-> ""]

---------------------------------------------------------------------------
(* Reconciler *)

\* stop=tenacity.stop_after_attempt(5)
MaxAttempts == 5

\* st_size of a file written by GetContentFile or by 7z, and of a local file that
\* was there before the first run
FetchedSize == 1
LocalSize == 2

\* obj.local_info.archive_file_name or obj.local_info.file_name
FinalName(obj) ==
    IF obj.local_info[1].archive_file_name # << >>
    THEN obj.local_info[1].archive_file_name
    ELSE obj.local_info[1].file_name

\* the frame of a sync_folder call: the node's id, dir_path, the indices of the two
\* for loops, file_names_seen, where the call is, and the path sync_file holds
Frame(folder_id, dir_path) ==
    [folder_id |-> folder_id, dir_path |-> dir_path, i |-> 1, k |-> 1,
     file_names_seen |-> {}, pc |-> "files", file_path |-> << >>]

Top == stack[Len(stack)]
SetTop(fr) == [stack EXCEPT ![Len(stack)] = fr]

\* the file the innermost call is at
CurObj == tree[Top.folder_id].files[Top.i]

\* Syncer.check_file_synced (without the statistics)
CheckFileSynced(f, obj) ==
    LET file_path == obj.local_info[1].dir_path \o <<FinalName(obj)>>
    IN /\ PathExists(f, file_path)
       /\ f[file_path].mtime = obj.modified_date

\* Syncer.delete_removed_files: the paths it removes from dir_path
RemovedPathsKeepDirs(f, dir_path, file_names_seen) ==
    {p \in DirEntries(f, dir_path) :
        p[Len(p)] \notin file_names_seen /\ f[p].kind = "file"}

RemovedPaths(f, dir_path, file_names_seen) ==
    UNION {Subtree(f, p) : p \in {q \in DirEntries(f, dir_path) :
                                      q[Len(q)] \notin file_names_seen}}

\* Syncer.delete_removed_files: the statistics afterwards
RECURSIVE SumEntrySizes(_, _)
SumEntrySizes(f, S) ==
    IF S = {} THEN 0
    ELSE LET p == CHOOSE x \in S : TRUE
         IN f[p].size + SumEntrySizes(f, S \ {p})

DeleteStats(st, f, dir_path, file_names_seen) ==
    LET files == {p \in DirEntries(f, dir_path) :
                    p[Len(p)] \notin file_names_seen /\ f[p].kind # "dir"}
    IN [st EXCEPT !.deleted_file_count = @ + Cardinality(files),
                  !.deleted_file_size = @ + SumEntrySizes(f, files)]

\* where an exception raised inside sync_folder leaves the run: no try statement in
\* sync_file, sync_folder or sync catches it, so every pending call is abandoned
\* and the exception leaves sync(); had a call caught it, the run would go on
Swallowed == "sync"

Uncaught == "failed"

\* sync_folder from its entry to the first file (lines 262-270), called with the
\* shared path list; on a failing mkdir the exception leaves sync()
SyncFolderCall(folder_id) ==
    LET node == NodeOf(tree, folder_id)
        path1 == Append(path, node.title)
        dir_path == JoinPath(path1)
        made == Mkdir(fs, dir_path)
    IN /\ path' = path1
       /\ visits' = [visits EXCEPT !.folders = Append(@, folder_id)]
       /\ fs' = made.fs
       /\ IF made.err # ""
          THEN /\ err' = made.err
               /\ phase' = Uncaught
               /\ tree' = PutNode(tree, folder_id, node)
               /\ stack' = stack
          ELSE /\ err' = err
               /\ phase' = "sync"
               /\ tree' = PutNode(tree, folder_id,
                                  [node EXCEPT !.files =
                                      MakeLocalFileInfo(node.files, dir_path, archive)])
               /\ stack' = Append(stack, Frame(folder_id, dir_path))

\* Syncer.sync: sync_folder(root_folder_id, [])
Sync ==
    /\ phase = "built"
    /\ root_folder_id # << >>
    /\ SyncFolderCall(root_folder_id[1])
    /\ UNCHANGED <<listing, pos, stats, root_folder_id, archive, tries, run, fetched,
                   pruned, local0>>

\* get_tree, line 330: Syncer(root_folder_id=None) is rejected by pydantic when no
\* listed object is a child of the root
SyncerInvalid ==
    /\ phase = "built"
    /\ root_folder_id = << >>
    /\ err' = "ValidationError"
    /\ phase' = "failed"
    /\ UNCHANGED <<listing, pos, tree, stats, root_folder_id, archive, fs, path, stack,
                   tries, run, fetched, pruned, local0, visits>>

\* sync_file up to the call of download_file (lines 225-239) and, for a file found
\* synced, line 273
SyncFileCheck ==
    /\ phase = "sync"
    /\ Top.pc = "files"
    /\ Top.i <= Len(tree[Top.folder_id].files)
    /\ visits' = [visits EXCEPT !.files = Append(@, CurObj.id)]
    /\ IF CheckFileSynced(fs, CurObj)
       THEN /\ stats' = [stats EXCEPT !.skipped_file_count = @ + 1]
            /\ stack' = SetTop([Top EXCEPT !.i = @ + 1,
                                           !.file_names_seen = @ \cup {FinalName(CurObj)}])
            /\ tries' = tries
       ELSE /\ stats' = stats
            /\ stack' = SetTop([Top EXCEPT !.pc = "download"])
            /\ tries' = << >>
    /\ UNCHANGED <<listing, pos, tree, root_folder_id, archive, fs, path, err, phase,
                   run, fetched, pruned, local0>>

\* what one attempt of download_file can come to: GetContentFile raises, 7z raises
\* or both succeed. Writing to a path that is a directory, or whose directory is
\* not there, always raises.
AttemptOutcomes(f, file_path, zip_path) ==
    {"fetch_error"}
        \cup (IF PathIsDir(f, file_path) \/ ~PathIsDir(f, ParentPath(file_path)) THEN {}
              ELSE IF ~archive THEN {"ok"}
              ELSE {"archive_error"} \cup (IF PathIsDir(f, zip_path) THEN {} ELSE {"ok"}))

\* whether tenacity stops after this failed attempt (stop_after_attempt)
StopsAfterOneMore(n) == n >= MaxAttempts + 1

StopsAfter(n) == n >= MaxAttempts

\* what leaves download_file when tenacity stops (reraise=True: the last failure)
Raised(outcomes) == outcomes[Len(outcomes)]

\* one attempt of download_file under tenacity.retry (lines 171-190), archive_file
\* (lines 192-206) included. A failing GetContentFile is taken to fail before it
\* writes anything.
DownloadAttempt ==
    /\ phase = "sync"
    /\ Top.pc = "download"
    /\ LET obj == CurObj
           file_path == obj.local_info[1].dir_path \o <<obj.local_info[1].file_name>>
           zip_path == obj.local_info[1].dir_path \o <<obj.local_info[1].file_name \o ZIP_EXT>>
           got == WriteEntry(fs, file_path, FileEntry(NowTime, obj.id, FetchedSize))
           zipped == RemovePaths(WriteEntry(got, zip_path,
                                            FileEntry(NowTime, obj.id, FetchedSize)),
                                 {file_path})
       IN \E outcome \in AttemptOutcomes(fs, file_path, zip_path) :
            /\ tries' = Append(tries, outcome)
            /\ fs' = CASE outcome = "fetch_error" -> fs
                       [] outcome = "archive_error" -> got
                       [] OTHER -> IF archive THEN zipped ELSE got
            /\ stats' = IF outcome = "fetch_error" THEN stats
                        ELSE [stats EXCEPT !.synced_file_count = @ + 1]
            /\ fetched' = IF outcome = "fetch_error" THEN fetched
                          ELSE fetched \cup {obj.id}
            /\ IF outcome = "ok"
               THEN /\ stack' = SetTop([Top EXCEPT !.pc = "utime",
                                                   !.file_path =
                                                       IF archive THEN zip_path
                                                       ELSE file_path])
                    /\ UNCHANGED <<err, phase>>
               ELSE IF StopsAfter(Len(tries'))
               THEN /\ err' = Raised(tries')
                    /\ phase' = Uncaught
                    /\ stack' = stack
               ELSE UNCHANGED <<err, phase, stack>>
    /\ UNCHANGED <<listing, pos, tree, root_folder_id, archive, path, run, pruned,
                   local0, visits>>

\* sync_file after download_file returned (line 244), and line 273; the attempts
\* of the call that returned are forgotten
SetTimestamp ==
    /\ phase = "sync"
    /\ Top.pc = "utime"
    /\ tries' = << >>
    /\ fs' = [fs EXCEPT ![Top.file_path].mtime = CurObj.modified_date]
    /\ stack' = SetTop([Top EXCEPT !.pc = "files",
                                   !.i = @ + 1,
                                   !.file_path = << >>,
                                   !.file_names_seen = @ \cup {FinalName(CurObj)}])
    /\ UNCHANGED <<listing, pos, tree, stats, root_folder_id, archive, path, err,
                   phase, run, fetched, pruned, local0, visits>>

\* the call of line 276 for the next child folder
SyncSubfolder ==
    /\ phase = "sync"
    /\ Top.pc = "files"
    /\ Top.i > Len(tree[Top.folder_id].files)
    /\ Top.k <= Len(tree[Top.folder_id].folders)
    /\ SyncFolderCall(tree[Top.folder_id].folders[Top.k])
    /\ UNCHANGED <<listing, pos, stats, root_folder_id, archive, tries, run, fetched,
                   pruned, local0>>

\* the shared path list left as it is at the end of the call
PopNothing(p) == p

\* path.pop() (line 282)
Pop(p) == SubSeq(p, 1, Len(p) - 1)

\* Path.iterdir() on dir_path (line 248): the exception raised when it is no
\* directory any more
IterdirError(f, dir_path) ==
    IF PathIsDir(f, dir_path) THEN ""
    ELSE IF PathExists(f, dir_path) THEN "NotADirectoryError"
    ELSE "FileNotFoundError"

\* the end of sync_folder (lines 279-283): delete_removed_files, path.pop(), and
\* in the caller line 277; the return of the outermost call ends sync()
ReturnFolder ==
    /\ phase = "sync"
    /\ Top.pc = "files"
    /\ Top.i > Len(tree[Top.folder_id].files)
    /\ Top.k > Len(tree[Top.folder_id].folders)
    /\ LET gone == RemovedPaths(fs, Top.dir_path, Top.file_names_seen)
           title == tree[Top.folder_id].title
           rest == SubSeq(stack, 1, Len(stack) - 1)
       IN IF IterdirError(fs, Top.dir_path) # ""
          THEN /\ err' = IterdirError(fs, Top.dir_path)
               /\ phase' = Uncaught
               /\ UNCHANGED <<fs, pruned, stats, path, stack>>
          ELSE /\ err' = err
               /\ fs' = RemovePaths(fs, gone)
               /\ pruned' = pruned \cup gone
               /\ stats' = DeleteStats(stats, fs, Top.dir_path, Top.file_names_seen)
               /\ path' = Pop(path)
               /\ IF rest = << >>
                  THEN /\ stack' = rest
                       /\ phase' = "done"
                  ELSE /\ stack' = [rest EXCEPT ![Len(rest)] =
                                       [@ EXCEPT !.k = @ + 1,
                                                 !.file_names_seen = @ \cup {title}]]
                       /\ phase' = phase
    /\ UNCHANGED <<listing, pos, tree, root_folder_id, archive, tries, run,
                   fetched, local0, visits>>

\* main() run a second time, on the same remote listing and the local tree the
\* first run left
RunAgain ==
    /\ phase = "done"
    /\ run = 1
    /\ LET b == GetTree(listing)
       IN /\ tree' = b.tree
          /\ stats' = b.stats
          /\ root_folder_id' = b.root_folder_id
    /\ run' = run + 1
    /\ phase' = "built"
    /\ path' = << >>
    /\ tries' = << >>
    /\ fetched' = {}
    /\ pruned' = {}
    /\ visits' = NoVisits
    /\ UNCHANGED <<listing, pos, archive, fs, stack, err, local0>>

\* what the provider may list for a run: folders and files titled "a" and "a.zip",
\* each an orphan or the child of the root or of a folder listed before it
SyncKinds ==
    {<<Str_a, FOLDER_MIME>>, <<Str_a_zip, FOLDER_MIME>>,
     <<Str_a, PLAIN_MIME>>, <<Str_a_zip, PLAIN_MIME>>}

\* the local trees a first run may find below base_dir: nothing; newer files "a"
\* and "a.zip" beside a directory "o" that holds a file; a directory "a" holding a
\* newer file "a"
LocalTrees ==
    {UnderBase(t) : t \in
        {<< >>,
         [p \in {<<Str_a>>, <<Str_a_zip>>, <<Str_o>>, <<Str_o, Str_a>>} |->
             IF p = <<Str_o>> THEN DirEntry
             ELSE IF p = <<Str_o, Str_a>> THEN FileEntry(1, -1, LocalSize)
             ELSE FileEntry(2, -1, LocalSize)],
         [p \in {<<Str_a>>, <<Str_a, Str_a>>} |->
             IF p = <<Str_a>> THEN DirEntry ELSE FileEntry(2, -1, LocalSize)]}}

\* main() after get_tree, on any listing, archive flag (Syncer.archive, which
\* get_tree sets from its archive and password arguments) and local tree
Init ==
    /\ \E n \in 1..MaxObjs :
         \E kinds \in [1..n -> SyncKinds], ps \in [1..n -> -1..(n - 1)] :
            /\ \A i \in 1..n :
                  /\ ps[i] < i
                  /\ ps[i] >= 1 => kinds[ps[i]][2] = FOLDER_MIME
            /\ listing = [i \in 1..n |->
                            RemoteObj(i, kinds[i][1], kinds[i][2], << >>, 1,
                                      ParentsOf(ps[i]))]
    /\ pos = Len(listing) + 1
    /\ tree = GetTree(listing).tree
    /\ stats = GetTree(listing).stats
    /\ root_folder_id = GetTree(listing).root_folder_id
    /\ archive \in BOOLEAN
    /\ fs \in LocalTrees
    /\ local0 = fs
    /\ visits = NoVisits
    /\ path = << >>
    /\ stack = << >>
    /\ tries = << >>
    /\ err = ""
    /\ phase = "built"
    /\ run = 1
    /\ fetched = {}
    /\ pruned = {}

Next ==
    \/ Sync
    \/ SyncerInvalid
    \/ SyncFileCheck
    \/ DownloadAttempt
    \/ SetTimestamp
    \/ SyncSubfolder
    \/ ReturnFolder
    \/ RunAgain

Spec == Init /\ [][Next]_vars

---------------------------------------------------------------------------
(* The Reconciler on listings of any shape: every object an orphan, a child of   *)
(* the root or a child of any listed id (its own, a later one, a file's), so    *)
(* that folders may form cycles                                                 *)

\* what the provider may list: folders titled "a", files titled "b"
VisitKinds == {<<Str_a, FOLDER_MIME>>, <<Str_b, PLAIN_MIME>>}

InitVisit ==
    /\ \E n \in 1..MaxObjs :
         \E kinds \in [1..n -> VisitKinds], ps \in [1..n -> TreeParents(n)] :
            listing = [i \in 1..n |->
                          RemoteObj(i, kinds[i][1], kinds[i][2], << >>, 1,
                                    ParentsOf(ps[i]))]
    /\ pos = Len(listing) + 1
    /\ tree = GetTree(listing).tree
    /\ stats = GetTree(listing).stats
    /\ root_folder_id = GetTree(listing).root_folder_id
    /\ archive = FALSE
    /\ fs = UnderBase(<< >>)
    /\ local0 = fs
    /\ visits = NoVisits
    /\ path = << >>
    /\ stack = << >>
    /\ tries = << >>
    /\ err = ""
    /\ phase = "built"
    /\ run = 1
    /\ fetched = {}
    /\ pruned = {}

SpecVisit == InitVisit /\ [][Next]_vars

---------------------------------------------------------------------------
(* The Reconciler on listings whose folder titles are not plain names *)

\* what the provider may list: folders titled "..", ".", "a/b", "/a" and "a", files
\* titled "b"
PathKinds ==
    {<<Str_dotdot, FOLDER_MIME>>, <<Str_dot, FOLDER_MIME>>,
     <<Str_a_slash_b, FOLDER_MIME>>, <<Str_slash_a, FOLDER_MIME>>,
     <<Str_a, FOLDER_MIME>>, <<Str_b, PLAIN_MIME>>}

\* the local trees the first run may find: an empty base_dir; a base_dir holding
\* a directory "a" and a file "o", beside a file "o" in base_dir's own directory
PathLocalTrees ==
    {UnderBase(<< >>),
     WriteEntry(UnderBase([p \in {<<Str_a>>, <<Str_o>>} |->
                             IF p = <<Str_a>> THEN DirEntry
                             ELSE FileEntry(2, -1, LocalSize)]),
                <<Str_h, Str_o>>, FileEntry(2, -1, LocalSize))}

InitPaths ==
    /\ \E n \in 1..MaxPathObjs :
         \E kinds \in [1..n -> PathKinds], ps \in [1..n -> -1..(n - 1)] :
            /\ \A i \in 1..n :
                  /\ ps[i] < i
                  /\ ps[i] >= 1 => kinds[ps[i]][2] = FOLDER_MIME
            /\ listing = [i \in 1..n |->
                            RemoteObj(i, kinds[i][1], kinds[i][2], << >>, 1,
                                      ParentsOf(ps[i]))]
    /\ pos = Len(listing) + 1
    /\ tree = GetTree(listing).tree
    /\ stats = GetTree(listing).stats
    /\ root_folder_id = GetTree(listing).root_folder_id
    /\ archive = FALSE
    /\ fs \in PathLocalTrees
    /\ local0 = fs
    /\ visits = NoVisits
    /\ path = << >>
    /\ stack = << >>
    /\ tries = << >>
    /\ err = ""
    /\ phase = "built"
    /\ run = 1
    /\ fetched = {}
    /\ pruned = {}

SpecPaths == InitPaths /\ [][Next]_vars

---------------------------------------------------------------------------
(* Claims about the Name Resolver (under SpecNames) *)

\* the files of the folder the Name Resolver was run on
Resolved == tree[RootId].files

FileName(obj) == obj.local_info[1].file_name
ArchiveFileName(obj) == obj.local_info[1].archive_file_name

\* the name a file gets when nothing collides: sanitized title plus extension
Unsuffixed(obj) == ReplaceSlash(obj.title) \o DottedExt(MIMETYPES(obj.mime_type)[2])

\* s followed by k copies of " (1)"
RECURSIVE WithSuffixes(_, _)
WithSuffixes(s, k) == IF k = 0 THEN s ELSE WithSuffixes(s, k - 1) \o SUFFIX

\* C3: after make_local_file_info the file_name values of the files of the folder
\* are pairwise distinct, and with archiving on so are the archive_file_name values
C3_NamesDistinct ==
    phase = "resolved" =>
        \A i, j \in 1..Len(Resolved) :
            i # j =>
                /\ FileName(Resolved[i]) # FileName(Resolved[j])
                /\ archive => ArchiveFileName(Resolved[i]) # ArchiveFileName(Resolved[j])

\* three files whose sanitized titles collide were resolved, with archiving on
C3_Witness ==
    /\ phase = "resolved"
    /\ archive
    /\ Len(Resolved) = 3
    /\ \A i \in 1..3 : Unsuffixed(Resolved[i]) = Str_a_under_b
    /\ \E i \in 1..3 : Resolved[i].title = Str_a_slash_b
    /\ \E i \in 1..3 : FileName(Resolved[i]) = Str_a_under_b \o SUFFIX \o SUFFIX

\* f is the first of its group (same sanitized title plus extension) in key order
FirstOfGroup(f) ==
    \A g \in {Resolved[i] : i \in 1..Len(Resolved)} :
        (g.id # f.id /\ Unsuffixed(g) = Unsuffixed(f)) => KeyLess(f, g)

\* C4 as claimed: the first file of every group keeps the unsuffixed name, whatever
\* other files the folder holds
C4_FirstKeepsName_Original ==
    phase = "resolved" =>
        \A i \in 1..Len(Resolved) :
            FirstOfGroup(Resolved[i]) => FileName(Resolved[i]) = Unsuffixed(Resolved[i])

\* the unsuffixed name of f is what a file g of another group that sorts before f
\* can be given by suffixing
TakenBySuffixing(f) ==
    \E j \in 1..Len(Resolved) :
        LET g == Resolved[j]
        IN /\ KeyLess(g, f)
           /\ Unsuffixed(g) # Unsuffixed(f)
           /\ \E k \in 1..Len(Resolved) :
                 Unsuffixed(f) =
                    WithSuffixes(ReplaceSlash(g.title), k)
                        \o DottedExt(MIMETYPES(g.mime_type)[2])

\* C4 amended: the first file of a group keeps the unsuffixed name unless that name
\* is the name of an earlier-sorted file of another group followed by " (1)" copies
C4_FirstKeepsName ==
    phase = "resolved" =>
        \A i \in 1..Len(Resolved) :
            (FirstOfGroup(Resolved[i]) /\ ~TakenBySuffixing(Resolved[i]))
                => FileName(Resolved[i]) = Unsuffixed(Resolved[i])

\* a group of two was resolved beside a file titled "a (1)" that sorts first of its
\* own group and keeps its name
C4_Witness ==
    /\ phase = "resolved"
    /\ Len(Resolved) = 3
    /\ \E i, j, k \in 1..3 :
          /\ Resolved[i].title = Str_a_slash_b /\ FileName(Resolved[i]) = Str_a_under_b
          /\ Resolved[j].title = Str_a_under_b
          /\ FileName(Resolved[j]) = Str_a_under_b \o SUFFIX
          /\ Resolved[k].title = Str_a_1 /\ FileName(Resolved[k]) = Str_a_1

\* the assignment of resolved names to file ids
Assignment(files) ==
    {<<files[i].id, FileName(files[i]), ArchiveFileName(files[i])>> : i \in 1..Len(files)}

\* C5: every ordering of the file list yields the same assignment of names to ids;
\* two files with one title and one timestamp get t (lower id) and t (1) (higher id)
C5_OrderIndependent ==
    phase = "resolved" =>
        /\ \A files \in Orderings(Resolved) :
              Assignment(MakeLocalFileInfo(files, << >>, archive)) = Assignment(Resolved)
        /\ \A i, j \in 1..Len(Resolved) :
              ( /\ Len(Resolved) = 2
                /\ Resolved[i].title = Resolved[j].title
                /\ Resolved[i].mime_type = Resolved[j].mime_type
                /\ Resolved[i].modified_date = Resolved[j].modified_date
                /\ Resolved[i].id < Resolved[j].id )
              => /\ FileName(Resolved[i]) = Unsuffixed(Resolved[i])
                 /\ FileName(Resolved[j]) =
                        WithSuffixes(ReplaceSlash(Resolved[j].title), 1)
                            \o DottedExt(MIMETYPES(Resolved[j].mime_type)[2])

\* two files titled "a" with one timestamp were resolved: id 1 is "a", id 2 "a (1)"
C5_Witness ==
    /\ phase = "resolved"
    /\ Len(Resolved) = 2
    /\ \A i \in 1..2 : Resolved[i].title = Str_a /\ Resolved[i].mime_type = PLAIN_MIME
    /\ Resolved[1].modified_date = Resolved[2].modified_date
    /\ Assignment(Resolved) =
          {<<1, Str_a, << >> >>, <<2, Str_a \o SUFFIX, << >> >>}

\* the extension a file's name ends with
ExtOf(obj) == DottedExt(MIMETYPES(obj.mime_type)[2])

HasSlash(t) == \E i \in 1..Len(t) : t[i] = 47

\* the files of the folder with f's title and conversion extension that sort
\* before f
EarlierOfGroup(f) ==
    {j \in 1..Len(Resolved) :
        /\ Resolved[j].title = f.title
        /\ ExtOf(Resolved[j]) = ExtOf(f)
        /\ KeyLess(Resolved[j], f)}

\* every name is the sanitized title, copies of " (1)", then the extension
SuffixBeforeExt ==
    \A i \in 1..Len(Resolved) :
        \E k \in 0..Len(Resolved) :
            FileName(Resolved[i]) =
                WithSuffixes(ReplaceSlash(Resolved[i].title), k) \o ExtOf(Resolved[i])

ChainMet(f) ==
    \E j \in 1..Len(Resolved) :
        LET g == Resolved[j]
        IN /\ g.title # f.title \/ ExtOf(g) # ExtOf(f)
           /\ KeyLess(g, f)
           /\ \E k, m \in 0..Len(Resolved) :
                 WithSuffixes(ReplaceSlash(g.title), k) \o ExtOf(g)
                    = WithSuffixes(f.title, m) \o ExtOf(f)

---------------------------------------------------------------------------
(* Claims about the Tree Builder (under SpecTree) *)

\* the indices of the objects get_tree has processed so far
Processed == 1..(pos - 1)

HasParent(i) == Len(listing[i].parents) = 1
IsFolderObj(i) == listing[i].mime_type = FOLDER_MIME

RECURSIVE SumSizes(_)
SumSizes(I) ==
    IF I = {} THEN 0
    ELSE LET i == CHOOSE x \in I : TRUE
         IN SizeOrZero(listing[i]) + SumSizes(I \ {i})

\* the ids in the folder lists and in the file lists of the hierarchy
IdsInFolderLists == UNION {{tree[k].folders[j] : j \in 1..Len(tree[k].folders)} : k \in DOMAIN tree}
IdsInFileLists == UNION {{tree[k].files[j].id : j \in 1..Len(tree[k].files)} : k \in DOMAIN tree}

\* C8: the three totals count exactly the processed objects that have a parent
\* (folders, files, sizes with an absent size as 0), and an object with no parent
\* is in no node's file or folder list
C8_TreeCounts ==
    /\ err = ""
    /\ stats.total_folder_count =
          Cardinality({i \in Processed : HasParent(i) /\ IsFolderObj(i)})
    /\ stats.total_file_count =
          Cardinality({i \in Processed : HasParent(i) /\ ~IsFolderObj(i)})
    /\ stats.total_file_size = SumSizes({i \in Processed : HasParent(i) /\ ~IsFolderObj(i)})
    /\ \A i \in Processed :
          ~HasParent(i) => listing[i].id \notin IdsInFolderLists \cup IdsInFileLists

\* a listing was built that holds an orphan folder with a child, a sized file and
\* a folder that have parents
C8_Witness ==
    /\ phase = "get_tree"
    /\ pos > Len(listing)
    /\ \E i, j, k \in Processed :
          /\ ~HasParent(i) /\ IsFolderObj(i)
          /\ HasParent(j) /\ ~IsFolderObj(j) /\ listing[j].parents[1].id = i
          /\ listing[j].file_size = <<2>>
          /\ HasParent(k) /\ IsFolderObj(k)
    /\ stats.total_file_size = 2
    /\ stats.total_folder_count = 1

\* C9: in a listing of single-parent objects, every id met as a parent is a key of
\* the hierarchy, and the node of every folder object met carries its title and
\* exactly the child folders and files met so far, in whatever order they came
C9_ForwardReferences ==
    (phase = "get_tree" /\ \A i \in 1..Len(listing) : HasParent(i)) =>
        /\ \A i \in Processed : listing[i].parents[1].id \in DOMAIN tree
        /\ \A i \in Processed :
              IsFolderObj(i) =>
                 /\ listing[i].id \in DOMAIN tree
                 /\ tree[listing[i].id].title = listing[i].title
        /\ \A k \in DOMAIN tree :
              LET subs == {j \in Processed : IsFolderObj(j) /\ listing[j].parents[1].id = k}
                  fils == {j \in Processed : ~IsFolderObj(j) /\ listing[j].parents[1].id = k}
              IN /\ {tree[k].folders[j] : j \in 1..Len(tree[k].folders)}
                       = {listing[j].id : j \in subs}
                 /\ Len(tree[k].folders) = Cardinality(subs)
                 /\ {tree[k].files[j] : j \in 1..Len(tree[k].files)}
                       = {listing[j] : j \in fils}
                 /\ Len(tree[k].files) = Cardinality(fils)

\* a folder object was processed after one of its children and before another
C9_Witness ==
    /\ phase = "get_tree"
    /\ pos > Len(listing)
    /\ \A i \in 1..Len(listing) : HasParent(i)
    /\ \E f, c, d \in Processed :
          /\ IsFolderObj(f) /\ c < f /\ f < d
          /\ listing[c].parents[1].id = listing[f].id
          /\ listing[d].parents[1].id = listing[f].id
          /\ ~IsFolderObj(c)
          /\ tree[listing[f].id].title = Str_b
          /\ Len(tree[listing[f].id].files) + Len(tree[listing[f].id].folders) = 2

---------------------------------------------------------------------------
(* Claims about the Reconciler and the Retrying Fetcher (under Spec) *)

\* the folders sync() visits: the root and what its child-folder lists lead to
RECURSIVE ReachFrom(_, _)
ReachFrom(S, n) ==
    IF n = 0 THEN S
    ELSE ReachFrom(S \cup UNION {{NodeOf(tree, k).folders[j] :
                                     j \in 1..Len(NodeOf(tree, k).folders)} : k \in S},
                   n - 1)

Reachable == IF root_folder_id = << >> THEN {} ELSE ReachFrom({root_folder_id[1]}, Len(listing))

\* the chain of titles from the root to folder k, and the directory it names
RECURSIVE TitleChain(_)
TitleChain(k) ==
    IF k = root_folder_id[1] THEN <<NodeOf(tree, k).title>>
    ELSE TitleChain(listing[k].parents[1].id) \o <<NodeOf(tree, k).title>>

DirOf(k) == JoinPath(TitleChain(k))

FilesOf(k) == {NodeOf(tree, k).files[j] : j \in 1..Len(NodeOf(tree, k).files)}
FoldersOf(k) == {NodeOf(tree, k).folders[j] : j \in 1..Len(NodeOf(tree, k).folders)}

\* the names the listing gives the entries of folder k's directory
ListedNames(k) ==
    {FinalName(f) : f \in FilesOf(k)} \cup {NodeOf(tree, c).title : c \in FoldersOf(k)}

\* C1: a second run on the same listing and the local tree the first run left
\* fetches nothing, counts every reachable file as skipped and deletes nothing
C1_Idempotent ==
    (phase = "done" /\ run = 2) =>
        /\ fetched = {}
        /\ pruned = {}
        /\ stats.skipped_file_count = Cardinality(UNION {FilesOf(k) : k \in Reachable})

\* C6: the local names of the direct children of a folder (resolved final names of
\* files, titles of child folders) are pairwise distinct, and a run that starts on
\* an empty base directory is not stopped by a folder meeting a file of its name
C6_NoLocalCollision ==
    /\ local0 = UnderBase(<< >>) => err # "FileExistsError"
    /\ phase = "done" =>
          \A k \in Reachable :
             /\ \A c, d \in FoldersOf(k) :
                   c # d => NodeOf(tree, c).title # NodeOf(tree, d).title
             /\ \A f, g \in FilesOf(k) : f.id # g.id => FinalName(f) # FinalName(g)
             /\ \A f \in FilesOf(k), c \in FoldersOf(k) :
                   FinalName(f) # NodeOf(tree, c).title

\* C7: a download_file call makes at most 5 attempts, none after a success, and
\* when all 5 fail the failure of the last one leaves sync()
C7_RetryBound ==
    /\ Len(tries) <= MaxAttempts
    /\ \A j \in 1..(Len(tries) - 1) : tries[j] # "ok"
    /\ (tries # << >> /\ tries[Len(tries)] = "ok") =>
          (phase = "sync" => Top.pc # "download")
    /\ (Len(tries) = MaxAttempts /\ tries[MaxAttempts] # "ok") =>
          (phase = "failed" /\ err = tries[MaxAttempts])
    /\ err \in {"fetch_error", "archive_error"} =>
          (Len(tries) = MaxAttempts /\ \A j \in 1..Len(tries) : tries[j] # "ok")
    /\ (phase = "sync" /\ stack # << >> /\ Top.pc = "download") =>
          Len(tries) < MaxAttempts

\* a call failed 5 times, first in the fetch and last in the archiving
C7_Witness ==
    /\ phase = "failed"
    /\ err = "archive_error"
    /\ Len(tries) = MaxAttempts
    /\ tries[1] = "fetch_error"

\* C10: after a run without error every file of every reachable folder has a local
\* file at its resolved archive-aware path with exactly the remote timestamp
C10_Mirror ==
    (phase = "done" /\ err = "") =>
        \A k \in Reachable :
            \A f \in FilesOf(k) :
                LET p == DirOf(k) \o <<FinalName(f)>>
                IN /\ p \in DOMAIN fs
                   /\ fs[p].kind = "file"
                   /\ fs[p].mtime = f.modified_date

\* a step that ends a sync_folder call
IsReturn == phase = "sync" /\ Len(stack') < Len(stack)
\* a step of sync_file that decides whether the file is synced
IsCheck == phase = "sync" /\ Top.pc = "files" /\ stack' # stack /\ Len(stack') = Len(stack)
\* the step of sync_file that ends it after a fetch
IsStamp == phase = "sync" /\ Top.pc = "utime" /\ stack' # stack

\* C2: when sync_folder ends, every entry of its directory has the name of a listed
\* file (resolved final name) or child folder, and no entry below a removed one is
\* left; an entry with a listed name is not touched by the pruning; a local file
\* at a resolved final name with another mtime is fetched again and overwritten
C2_Deletion ==
    [][ /\ IsReturn =>
             /\ Top.dir_path = DirOf(Top.folder_id)
             /\ \A p \in DirEntries(fs', DirOf(Top.folder_id)) :
                   p[Len(p)] \in ListedNames(Top.folder_id)
             /\ \A p \in DirEntries(fs, DirOf(Top.folder_id)) :
                   IF p[Len(p)] \in ListedNames(Top.folder_id)
                   THEN \A q \in Subtree(fs, p) : q \in DOMAIN fs' /\ fs'[q] = fs[q]
                   ELSE \A q \in Subtree(fs, p) : q \notin DOMAIN fs'
        /\ (IsCheck /\ Top.i <= Len(NodeOf(tree, Top.folder_id).files)) =>
             LET p == DirOf(Top.folder_id) \o <<FinalName(CurObj)>>
             IN (p \in DOMAIN fs /\ fs[p].mtime # CurObj.modified_date) =>
                   /\ Top'.pc = "download"
                   /\ stats' = stats
        /\ IsStamp =>
             LET p == DirOf(Top.folder_id) \o <<FinalName(CurObj)>>
             IN /\ p \in DOMAIN fs'
                /\ fs'[p] = FileEntry(CurObj.modified_date, CurObj.id, FetchedSize)
      ]_vars

\* a first run ended that pruned the directory "o" with the file in it and fetched
\* the file "a" again, over a newer local file
C2_Witness ==
    /\ phase = "done"
    /\ run = 1
    /\ ~archive
    /\ (BaseDir \o <<Str_a>>) \in DOMAIN local0
    /\ local0[BaseDir \o <<Str_a>>] = FileEntry(2, -1, LocalSize)
    /\ {BaseDir \o <<Str_o>>, BaseDir \o <<Str_o, Str_a>>} \subseteq pruned
    /\ (BaseDir \o <<Str_a>>) \notin pruned
    /\ (BaseDir \o <<Str_a>>) \in DOMAIN fs
    /\ fs[BaseDir \o <<Str_a>>].kind = "file"
    /\ fs[BaseDir \o <<Str_a>>].src \in fetched
    /\ fs[BaseDir \o <<Str_a>>].mtime = 1

\* C11: once an exception has left download_file (retry budget exhausted) or mkdir,
\* the run makes no further step: nothing is fetched, re-timestamped or pruned and
\* no pending sync_folder call (the failing folder, its ancestors) goes on to its
\* pruning; the step that raises prunes nothing itself and the error is what
\* sync() ends with
C11_Abort ==
    [][ /\ err # "" => FALSE
        /\ (err = "" /\ err' # "") =>
              /\ phase' = "failed"
              /\ stack' = stack
              /\ pruned' = pruned
              /\ stats'.deleted_file_count = stats.deleted_file_count
              /\ stats'.skipped_file_count = stats.skipped_file_count
              /\ \A p \in DOMAIN fs : p \in DOMAIN fs'
        /\ phase' = "done" => err' = ""
      ]_vars

\* a fetch in a child folder ran out of attempts after the root's file had been
\* fetched; the unlisted local directory "o" of the root is still there
C11_Witness ==
    /\ phase = "failed"
    /\ err = "fetch_error"
    /\ Len(stack) = 2
    /\ fetched # {}
    /\ pruned = {}
    /\ {BaseDir \o <<Str_o>>, BaseDir \o <<Str_o, Str_a>>} \subseteq DOMAIN fs

\* the entries directly in the directory of the returning sync_folder call that
\* its pruning removes
PrunedEntries == {p \in DirEntries(fs, Top.dir_path) : p \notin DOMAIN fs'}

\* C13: the pruning of a directory adds one to deleted_file_count for every entry
\* it removes from the directory, file or directory, and adds to deleted_file_size
\* the size of every file it removes from the directory
C13_DeletionStats ==
    [][ IsReturn =>
          /\ stats'.deleted_file_count =
                stats.deleted_file_count + Cardinality(PrunedEntries)
          /\ stats'.deleted_file_size =
                stats.deleted_file_size
                    + SumEntrySizes(fs, {p \in PrunedEntries : fs[p].kind = "file"})
      ]_vars

\* C14: whenever download_file has returned, and at the end of a run without
\* error, synced_file_count is the number of files fetched in the run, however many
\* attempts were made, and at the end skipped_file_count is the number of the other
\* files of the folders visited
C14_SyncStats ==
    /\ (phase = "sync" /\ stack # << >> /\ Top.pc = "utime") =>
          stats.synced_file_count = Cardinality(fetched)
    /\ phase = "done" =>
          /\ stats.synced_file_count = Cardinality(fetched)
          /\ stats.skipped_file_count =
                Cardinality(UNION {{f.id : f \in FilesOf(k)} : k \in Reachable} \ fetched)

\* C15: during sync(), the directory of every pending sync_folder call (used for
\* the folder's files and its pruning) and the dir_path in the LocalInfo of each of
\* its files is the base directory joined with the titles from the root to the
\* folder; the shared path list is the chain of titles of the innermost pending
\* call, so after a call returns it is what it was before the call, and it is
\* empty when sync() returns
C15_PathDiscipline ==
    /\ (phase = "sync" /\ stack # << >>) =>
          /\ path = TitleChain(Top.folder_id)
          /\ \A j \in 1..Len(stack) :
                /\ stack[j].dir_path = DirOf(stack[j].folder_id)
                /\ \A f \in FilesOf(stack[j].folder_id) :
                      f.local_info = <<LocalInfo(DirOf(stack[j].folder_id),
                                                 MIMETYPES(f.mime_type)[1],
                                                 f.local_info[1].file_name,
                                                 f.local_info[1].archive_file_name)>>
          /\ \A j \in 2..Len(stack) :
                stack[j].folder_id \in FoldersOf(stack[j - 1].folder_id)
    /\ phase = "done" => path = << >>

\* the second of two child folders of the root with different titles is being
\* synced, in a child folder of its own, after the first has returned
C15_Witness ==
    /\ phase = "sync"
    /\ Len(stack) = 3
    /\ stack[1].k = 2
    /\ NodeOf(tree, stack[1].folder_id).title = << >>
    /\ LET subs == NodeOf(tree, stack[1].folder_id).folders
       IN /\ NodeOf(tree, subs[1]).title # NodeOf(tree, subs[2]).title
          /\ path = << << >>, NodeOf(tree, subs[2]).title, Str_a >>
          /\ Top.dir_path = BaseDir \o <<NodeOf(tree, subs[2]).title, Str_a>>

\* the local paths of the files sync_file has finished with in the run so far: in
\* every pending sync_folder call the files before the one it is at, and all files
\* of the child folders it has returned from, and of the folders below those
SettledPaths ==
    UNION {LET fr == stack[j]
               node == NodeOf(tree, fr.folder_id)
               visited == ReachFrom({node.folders[m] : m \in 1..(fr.k - 1)}, Len(listing))
           IN {fr.dir_path \o <<FinalName(node.files[m])>> : m \in 1..(fr.i - 1)}
                \cup UNION {{DirOf(d) \o <<FinalName(f)>> : f \in FilesOf(d)} : d \in visited}
           : j \in 1..Len(stack)}

\* C16: no step of a run removes or overwrites the local entry of a file that
\* sync_file has already fetched or found synced in that run
C16_NoLossWithinRun ==
    [][ phase = "sync" =>
          \A p \in SettledPaths :
              p \in DOMAIN fs => (p \in DOMAIN fs' /\ fs'[p] = fs[p])
      ]_vars

\* C17: when sync() has ended without error, the files fetched and the files
\* skipped add up to the total_file_count of the Tree Builder
C17_StatsBalance ==
    (phase = "done" /\ err = "") =>
        stats.synced_file_count + stats.skipped_file_count = stats.total_file_count

\* the elements of a sequence, and whether it holds none of them twice
Range(q) == {q[i] : i \in 1..Len(q)}
NoRepeat(q) == Cardinality(Range(q)) = Len(q)

\* the ids of the files of the folders linked from the root
ReachableFiles == UNION {{f.id : f \in FilesOf(k)} : k \in Reachable}

\* An upper bound of the steps main() has still to make: two for every folder not
\* yet entered (its call and its return), one for every pending call, for every
\* file not yet handed to sync_file its check, its attempts and its os.utime, what
\* is left of the file being fetched, and all of that again for a run to come
FileSteps == MaxAttempts + 2

FetchStepsLeft ==
    IF phase = "sync" /\ stack # << >>
    THEN CASE Top.pc = "download" -> MaxAttempts - Len(tries) + 1
           [] Top.pc = "utime" -> 1
           [] OTHER -> 0
    ELSE 0

RunSteps == 2 * (Len(listing) + 1) + FileSteps * Len(listing) + 1

StepsLeft ==
    IF phase = "failed" THEN 0
    ELSE (2 - run) * RunSteps
            + 2 * (Len(listing) + 1 - Len(visits.folders))
            + Len(stack)
            + FileSteps * (Len(listing) - Len(visits.files))
            + FetchStepsLeft

\* while sync() runs some sync_folder call is pending, and it is at its loops, in
\* an attempt to fetch a file or about to set the timestamp of a fetched file
Running ==
    phase = "sync" =>
        /\ stack # << >>
        /\ Top.pc \in {"files", "download", "utime"}
        /\ Top.pc \in {"download", "utime"} =>
              Top.i <= Len(NodeOf(tree, Top.folder_id).files)

\* C18: on every listing of objects with at most one parent each, sync() comes to
\* an end (every step lowers a bound of the steps left, which is never negative,
\* and sync() is never stuck between two steps); sync_folder is entered at most
\* once for a folder, only for folders linked from the root, and sync_file is
\* called at most once for a file, only for files of such folders; when sync()
\* returns, every such folder and file has had its call
C18_SingleVisit ==
    /\ [](/\ NoRepeat(visits.folders)
          /\ NoRepeat(visits.files)
          /\ Range(visits.folders) \subseteq Reachable
          /\ Range(visits.files) \subseteq ReachableFiles
          /\ phase = "done" =>
                /\ Range(visits.folders) = Reachable
                /\ Range(visits.files) = ReachableFiles
          /\ Running
          /\ StepsLeft >= 0)
    /\ [][StepsLeft' < StepsLeft]_vars

\* sync() returned on a listing in which two folders are each other's parent, next
\* to a folder of the root that holds a file
C18_Witness ==
    /\ phase = "done"
    /\ run = 2
    /\ \E i, j \in 1..Len(listing) :
          /\ i # j
          /\ IsFolderObj(i) /\ IsFolderObj(j)
          /\ listing[i].parents = <<RemoteParentFolder(j)>>
          /\ listing[j].parents = <<RemoteParentFolder(i)>>
          /\ {i, j} \cap Reachable = {}
          /\ j \in FoldersOf(i)
    /\ Len(visits.files) = 1
    /\ Len(visits.folders) = 1

\* p is base_dir or lies below it
Inside(p) == Len(p) >= Len(BaseDir) /\ SubSeq(p, 1, Len(BaseDir)) = BaseDir

\* C19: the directory of every sync_folder call lies in base_dir and is a direct
\* child of the directory of the calling sync_folder; every entry pruned lies
\* below base_dir, and so does every entry that is new or not what it was before
\* the first run
C19_Containment ==
    /\ \A j \in 1..Len(stack) : Inside(stack[j].dir_path)
    /\ \A j \in 2..Len(stack) : ParentPath(stack[j].dir_path) = stack[j - 1].dir_path
    /\ \A p \in pruned : Inside(p) /\ p # BaseDir
    /\ \A p \in DOMAIN fs : (p \notin DOMAIN local0 \/ fs[p] # local0[p]) => Inside(p)
    /\ \A p \in DOMAIN local0 : p \notin DOMAIN fs => (Inside(p) /\ p # BaseDir)

====
